---------------------------- MODULE Spec2Model ----------------------------
(***************************************************************************)
(* Model of Merger::merge (rafs/src/builder/merge.rs): the overlay of     *)
(* per-layer RAFS bootstraps into one image-level bootstrap.               *)
(*                                                                         *)
(* One behaviour is one call of merge.  The arguments are drawn in Init,   *)
(* the contents of the bootstrap files are drawn when a file is loaded,    *)
(* and every early return of the function is a step to pc = "done" with    *)
(* the error in `result`.                                                  *)
(***************************************************************************)
EXTENDS Integers, Sequences, FiniteSets, TLC

(***************************************************************************)
(* Bounds of the model.                                                    *)
(***************************************************************************)
\* The longest list of sources.
MaxSources == 2
\* The bytes of a digest: [u8; 32] in the program, 2 * DigestBytes hex
\* characters as text.  Blob ids, digests and file names scale with it.
DigestBytes == 1

(***************************************************************************)
(* Program constants.                                                      *)
(***************************************************************************)
\* u16::MAX, the limit of Node::layer_idx.
U16Max == 65535

(***************************************************************************)
(* Option<T>: None, or Some(v).                                            *)
(***************************************************************************)
None == [some |-> FALSE]
Some(v) == [some |-> TRUE, v |-> v]

(***************************************************************************)
(* hex::FromHex for [u8; 32] and hex::encode.  A digest string is a        *)
(* sequence of characters; decoding accepts both cases of a-f, encoding    *)
(* writes lower case.                                                      *)
(***************************************************************************)
HexLower == <<"0","1","2","3","4","5","6","7","8","9","a","b","c","d","e","f">>
HexUpper == <<"A","B","C","D","E","F">>

HexNibble(c) ==
    IF \E i \in 1..16 : HexLower[i] = c
    THEN (CHOOSE i \in 1..16 : HexLower[i] = c) - 1
    ELSE IF \E i \in 1..6 : HexUpper[i] = c
         THEN 9 + (CHOOSE i \in 1..6 : HexUpper[i] = c)
         ELSE -1

\* <[u8; N]>::from_hex(digest): Err on a wrong length or a non-hex character.
FromHex(s) ==
    IF Len(s) # 2 * DigestBytes \/ \E i \in 1..Len(s) : HexNibble(s[i]) = -1
    THEN [ok |-> FALSE]
    ELSE [ok |-> TRUE,
          v  |-> [i \in 1..DigestBytes |->
                     16 * HexNibble(s[2 * i - 1]) + HexNibble(s[2 * i])]]

\* hex::encode(digest)
HexEncode(bytes) ==
    [i \in 1..(2 * Len(bytes)) |->
        IF i % 2 = 1 THEN HexLower[(bytes[(i + 1) \div 2] \div 16) + 1]
                     ELSE HexLower[(bytes[i \div 2] % 16) + 1]]

\* A text of the length of a digest, made of one two-character pattern.
Text(c1, c2) == [i \in 1..(2 * DigestBytes) |-> IF i % 2 = 1 THEN c1 ELSE c2]


(***************************************************************************)
(* The data model: BlobInfo, Node, and a loaded bootstrap (RafsSuper).     *)
(* A chunk is modelled by its blob_index, a tree by the sequence of its    *)
(* nodes in breadth-first order, root first.                               *)
(***************************************************************************)
ZeroDigest == [i \in 1..DigestBytes |-> 0]

\* BlobInfo as read from a bootstrap's blob table.
BlobInfo(id, cs, sep) ==
    [blob_id |-> id, chunk_size |-> cs, separate |-> sep,
     compressed_size |-> 7, blob_meta_digest |-> ZeroDigest, blob_meta_size |-> 0,
     blob_toc_digest |-> ZeroDigest, blob_toc_size |-> 0]

\* Node of a tree.  `whiteout` is the node's whiteout type (decided by its name
\* and file type, not by `overlay`); `origin` is a history field naming the
\* layer the node was built from: <<"parent", k>> for layer k of the parent
\* image, <<"src", i>> for sources[i].
Node(path, chunks, wh, li, kind) ==
    [path |-> path, chunks |-> chunks, whiteout |-> wh, layer_idx |-> li,
     overlay |-> "Lower", origin |-> <<kind, li>>]

\* RafsSuper: meta (the part check_compatibility reads, and the TARFS flag),
\* the blob table and the nodes.  `fill` counts leading blob table entries
\* whose ids are none of the ids of the model: they are counted, not listed.
RafsSuper(compat, tarfs, fill, blobs, nodes) ==
    [meta  |-> [compat |-> compat, is_tarfs_mode |-> tarfs],
     fill  |-> fill, blobs |-> blobs, nodes |-> nodes]

IdD1 == Text("d", "1")
IdD2 == Text("d", "2")
IdB1 == Text("b", "1")
IdB2 == Text("b", "2")

ChunkSizeA == {1048576}
ChunkSizeB == {2097152}
CsA == CHOOSE c \in ChunkSizeA : TRUE
CsB == CHOOSE c \in ChunkSizeB : TRUE

SrcRoot == Node("/", <<>>, FALSE, 0, "src")
SrcFile(path, chunks) == Node(path, chunks, FALSE, 0, "src")
SrcWhiteout(path) == Node(path, <<>>, TRUE, 0, "src")

\* Per-layer bootstraps a source path may hold.
LayerB1 ==
    RafsSuper("c1", FALSE, 0, <<BlobInfo(IdB1, CsA, FALSE)>>,
              <<SrcRoot, SrcFile("/a", <<0>>)>>)
LayerB2 ==
    RafsSuper("c1", FALSE, 0, <<BlobInfo(IdB2, CsA, FALSE)>>,
              <<SrcRoot, SrcFile("/a", <<0, 0>>)>>)
LayerDictFirst ==
    RafsSuper("c1", FALSE, 0,
              <<BlobInfo(IdD1, CsA, FALSE), BlobInfo(IdD2, CsA, FALSE),
                BlobInfo(IdB2, CsA, FALSE)>>,
              <<SrcRoot, SrcFile("/b", <<2, 0, 1>>)>>)
LayerDictLast ==
    RafsSuper("c1", FALSE, 0,
              <<BlobInfo(IdB1, CsA, FALSE), BlobInfo(IdD1, CsA, FALSE)>>,
              <<SrcRoot, SrcFile("/b", <<0, 1>>)>>)
LayerTwoNew ==
    RafsSuper("c1", FALSE, 0,
              <<BlobInfo(IdB1, CsA, FALSE), BlobInfo(IdB2, CsA, FALSE)>>,
              <<SrcRoot, SrcFile("/b", <<0, 1>>)>>)
LayerSeparate ==
    RafsSuper("c1", FALSE, 0, <<BlobInfo(IdB2, CsA, TRUE)>>,
              <<SrcRoot, SrcFile("/b", <<0>>)>>)
LayerBigChunk ==
    RafsSuper("c1", FALSE, 0, <<BlobInfo(IdB2, CsB, FALSE)>>,
              <<SrcRoot, SrcFile("/b", <<0>>)>>)
LayerNoBlob ==
    RafsSuper("c1", FALSE, 0, <<>>, <<SrcRoot, SrcWhiteout("/a")>>)
LayerTarfs ==
    RafsSuper("c1", TRUE, 0, <<BlobInfo(IdB1, CsA, FALSE)>>,
              <<SrcRoot, SrcFile("/a", <<0>>)>>)
LayerOtherConfig ==
    RafsSuper("c2", FALSE, 0, <<BlobInfo(IdB1, CsA, FALSE)>>,
              <<SrcRoot, SrcFile("/a", <<0>>)>>)

LayerSet ==
    {LayerB1, LayerB2, LayerDictFirst, LayerDictLast, LayerTwoNew, LayerSeparate,
     LayerBigChunk, LayerNoBlob, LayerTarfs, LayerOtherConfig}

\* Bootstraps the parent path may hold: images merged earlier.
\*  - ParentNoBlob: one layer without data blobs;
\*  - ParentOneBlob: two layers, the upper one without a data blob of its own;
\*  - ParentByPath: one layer, merged without access to its blob, which is
\*    named after the file of the layer's bootstrap;
\*  - ParentFull: an image whose blob table has u16::MAX entries.
ParentNoBlob ==
    RafsSuper("c1", FALSE, 0, <<>>, <<Node("/", <<>>, FALSE, 0, "parent")>>)
ParentOneBlob ==
    RafsSuper("c1", FALSE, 0, <<BlobInfo(IdB1, CsA, FALSE)>>,
              <<Node("/", <<>>, FALSE, 1, "parent"),
                Node("/a", <<0>>, FALSE, 0, "parent"),
                Node("/c", <<>>, FALSE, 1, "parent")>>)
ParentByPath ==
    RafsSuper("c1", FALSE, 0, <<BlobInfo(Text("a", "1"), CsA, FALSE)>>,
              <<Node("/", <<>>, FALSE, 0, "parent"),
                Node("/a", <<0>>, FALSE, 0, "parent")>>)
ParentFull ==
    RafsSuper("c1", FALSE, U16Max, <<>>,
              <<Node("/", <<>>, FALSE, 0, "parent"),
                Node("/c", <<1>>, FALSE, 0, "parent")>>)

ParentSet == {ParentNoBlob, ParentOneBlob, ParentByPath, ParentFull}

\* Bootstraps the chunk dictionary path may hold.
DictTwoBlobs ==
    RafsSuper("c1", FALSE, 0,
              <<BlobInfo(IdD1, CsA, FALSE), BlobInfo(IdD2, CsA, FALSE)>>,
              <<SrcRoot>>)
DictTarfs ==
    RafsSuper("c1", TRUE, 0, <<BlobInfo(IdD1, CsA, FALSE)>>, <<SrcRoot>>)
DictNoBlob == RafsSuper("c1", FALSE, 0, <<>>, <<SrcRoot>>)

DictSet == {DictTwoBlobs, DictTarfs, DictNoBlob}

(***************************************************************************)
(* The arguments of merge.                                                 *)
(***************************************************************************)
\* A source path, by its file name: get_blob_id_from_meta_path reads it.
PathA == [file_name |-> Text("a", "1")]
PathB == [file_name |-> Text("a", "2")]
PathBad == [file_name |-> <<"l">>]
PathSet == {PathA, PathB, PathBad}

\* Entries of blob_digests: upper-case hex, lower-case hex, not hex.
DigestX == Text("A", "B")
DigestY == Text("c", "d")
DigestBad == Text("z", "z")
DigestStrs == {DigestX, DigestY, DigestBad}

\* Entries of blob_toc_digests.
TocDigest == Text("e", "f")

Arrays(S, n) == [1..n -> S]
Opt(S) == {None} \cup {Some(v) : v \in S}

\* Distinct paths for the sources, in turn.
DefaultSources(n) == [i \in 1..n |-> IF i % 2 = 1 THEN PathA ELSE PathB]

\* The arguments are drawn from three families, each varying some of the
\* arguments and fixing the others.
\*
\* The paths and the digests vary: what the blob ids are resolved from.
IdArgs ==
    UNION {
      [sources          : Arrays(PathSet, n),
       blob_digests     : {None},
       blob_sizes       : Opt(Arrays({100}, n)),
       blob_toc_digests : {None},
       blob_toc_sizes   : {None},
       parent_bootstrap_path : {FALSE},
       chunk_dict       : {FALSE},
       blob_accessible  : {FALSE}]
      \cup
      [sources          : {DefaultSources(n)},
       blob_digests     : {Some(v) : v \in Arrays(DigestStrs, n)},
       blob_sizes       : Opt(Arrays({100}, n)),
       blob_toc_digests : {None},
       blob_toc_sizes   : {None},
       parent_bootstrap_path : {FALSE},
       chunk_dict       : {FALSE},
       blob_accessible  : BOOLEAN] : n \in 1..MaxSources }

\* No array, or all four of them.
NoneOrAll(n) ==
    {<<None, None, None, None>>,
     <<Some([i \in 1..n |-> DigestX]), Some([i \in 1..n |-> 100]),
       Some([i \in 1..n |-> TocDigest]), Some([i \in 1..n |-> 50])>>}

\* The parent and the chunk dictionary vary, with all overrides or none.
ManifestArgs ==
    UNION { UNION {
      [sources          : {DefaultSources(n)},
       blob_digests     : {o[1]},
       blob_sizes       : {o[2]},
       blob_toc_digests : {o[3]},
       blob_toc_sizes   : {o[4]},
       parent_bootstrap_path : BOOLEAN,
       chunk_dict       : BOOLEAN,
       blob_accessible  : BOOLEAN] : o \in NoneOrAll(n) } : n \in 1..MaxSources }

\* The lengths of the arrays vary, up to one more than the sources.
AnyLengthArgs ==
    UNION {
      [sources          : {DefaultSources(n)},
       blob_digests     : Opt(UNION {Arrays({DigestY}, m) : m \in 0..(n + 1)}),
       blob_sizes       : Opt(UNION {Arrays({100}, m) : m \in 0..(n + 1)}),
       blob_toc_digests : Opt(UNION {Arrays({TocDigest}, m) : m \in 0..(n + 1)}),
       blob_toc_sizes   : Opt(UNION {Arrays({50}, m) : m \in 0..(n + 1)}),
       parent_bootstrap_path : {FALSE},
       chunk_dict       : {FALSE},
       blob_accessible  : {TRUE}] : n \in 0..MaxSources }

MergeArgs == IdArgs \cup ManifestArgs \cup AnyLengthArgs

(***************************************************************************)
(* DummyCache (storage/src/cache/dummycache.rs) and the chunk read path    *)
(* of the cache traits (storage/src/cache/mod.rs).                         *)
(*                                                                         *)
(* A byte is a small number; a buffer is a sequence of bytes.  The blob of *)
(* the backend holds two chunks: an uncompressed one at offset 0 and a     *)
(* compressed one behind it.                                               *)
(***************************************************************************)
\* Most descriptors of one read call.
MaxBios == 2

\* Read calls in flight on one cache.
MaxReaders == 2

Min(a, b) == IF a < b THEN a ELSE b

RECURSIVE Sum(_)
Sum(s) == IF Len(s) = 0 THEN 0 ELSE s[1] + Sum(Tail(s))

RECURSIVE Flatten(_)
Flatten(ss) == IF Len(ss) = 0 THEN <<>> ELSE ss[1] \o Flatten(Tail(ss))

\* digest::Algorithm over a buffer: a toy digest, the sum of the bytes
\* modulo DigestMod, under which different buffers may collide.
DigestMod == 4
Digest(data) == Sum(data) % DigestMod

\* utils::digest_check(chunk, block_id, digester).
DigestCheck(data, block_id) == Digest(data) = block_id

\* A compressed chunk is a frame marker followed by the payload.
FrameMarker == 9

\* compress::decompress(raw, None, chunk, algorithm): fails on a broken
\* frame; otherwise the payload is written to the front of `chunk`, at most
\* chunk.len() bytes of it.  The count it returns is not used by the callers.
Decompress(raw, chunk) ==
    IF Len(raw) = 0 \/ raw[1] # FrameMarker
    THEN [err |-> TRUE, chunk |-> chunk]
    ELSE LET payload == Tail(raw)
             n       == Min(Len(payload), Len(chunk))
         IN  [err |-> FALSE,
              chunk |-> SubSeq(payload, 1, n) \o SubSeq(chunk, n + 1, Len(chunk))]

\* compress::compute_compressed_gzip_size(size, max_size): the size plus the
\* overhead of the format, at most max_size.
GzipOverhead == 1
GzipSize(size, max_size) == Min(size + GzipOverhead, max_size)

\* The decompressed bytes the chunks were built from.
DataPlain == <<1, 2>>
DataPacked == <<3, 2>>

\* BlobChunkInfo of the two chunks.
ChunkPlain ==
    [index |-> 0, is_compressed |-> FALSE, compress_offset |-> 0,
     compress_size |-> 2, decompress_size |-> 2, block_id |-> Digest(DataPlain)]
ChunkPacked ==
    [index |-> 1, is_compressed |-> TRUE, compress_offset |-> 2,
     compress_size |-> 3, decompress_size |-> 2, block_id |-> Digest(DataPacked)]
ChunkSet == {ChunkPlain, ChunkPacked}

\* The backend of the blob: its bytes, the offsets at which a read fails, and
\* whether blob_size() answers.
Backend(blob, fail_at, size_ok) ==
    [blob |-> blob, fail_at |-> fail_at, size_ok |-> size_ok]
BlobGood == DataPlain \o <<FrameMarker>> \o DataPacked
BackendGood == Backend(BlobGood, {}, TRUE)
BackendSet ==
    {BackendGood,
     Backend(<<1, 3, 9, 3, 2>>, {}, TRUE),    \* a byte of the plain chunk changed
     Backend(<<2, 1, 9, 3, 2>>, {}, TRUE),    \* changed, with the same digest
     Backend(<<1, 2, 9, 3, 1>>, {}, TRUE),    \* a byte of the payload changed
     Backend(<<1, 2, 8, 3, 2>>, {}, TRUE),    \* the frame broken
     Backend(<<1, 2, 9, 3>>, {}, TRUE),       \* the blob cut short
     Backend(BlobGood, {0}, TRUE),            \* reads at offset 0 fail
     Backend(BlobGood, {2}, TRUE),            \* reads at offset 2 fail
     Backend(BlobGood, {}, FALSE)}            \* blob_size() fails

\* BlobBackend::read(blob_id, buf, offset): an error, or the bytes of the
\* blob from `offset`, at most buf.len() of them.
BackendRead(be, len, offset) ==
    IF offset \in be.fail_at
    THEN [err |-> TRUE, data |-> <<>>]
    ELSE [err |-> FALSE,
          data |-> SubSeq(be.blob, offset + 1, Min(offset + len, Len(be.blob)))]

\* Mutant: the digest is never checked.
ProcessRawChunkUnvalidated(cki, raw_chunk, chunk, same, need_decompress, need_validate) ==
    LET d == IF need_decompress THEN Decompress(raw_chunk, chunk)
             ELSE IF same THEN [err |-> FALSE, chunk |-> chunk]
             ELSE [err |-> Len(raw_chunk) # Len(chunk), chunk |-> raw_chunk]
    IN  IF d.err
        THEN [err |-> IF need_decompress THEN "decompress" ELSE "panic",
              chunk |-> chunk]
        ELSE IF Len(d.chunk) # cki.decompress_size
        THEN [err |-> "length", chunk |-> d.chunk]
        ELSE [err |-> "", chunk |-> d.chunk]

\* mod.rs 274-303: process_raw_chunk.  `same` says that raw_chunk and chunk
\* are one buffer.  Returns [err, chunk]: err = "" on success, "panic" when
\* copy_from_slice is given slices of two lengths, and the chunk buffer as it
\* is left.
ProcessRawChunk(cki, raw_chunk, chunk, same, need_decompress, need_validate) ==
    LET d == IF need_decompress THEN Decompress(raw_chunk, chunk)
             ELSE IF same THEN [err |-> FALSE, chunk |-> chunk]
             ELSE [err |-> Len(raw_chunk) # Len(chunk), chunk |-> raw_chunk]
    IN  IF d.err
        THEN [err |-> IF need_decompress THEN "decompress" ELSE "panic",
              chunk |-> chunk]
        ELSE IF Len(d.chunk) # cki.decompress_size
        THEN [err |-> "length", chunk |-> d.chunk]
        ELSE IF need_validate /\ ~DigestCheck(d.chunk, cki.block_id)
        THEN [err |-> "digest", chunk |-> d.chunk]
        ELSE [err |-> "", chunk |-> d.chunk]

\* mod.rs 227-244: the length of the buffer the backend reads into, or an
\* error: [err, len].
RawChunkLen(cfg, be, cki, chunk) ==
    IF ~cki.is_compressed THEN [err |-> "", len |-> Len(chunk)]
    ELSE IF ~be.size_ok THEN [err |-> "blob_size", len |-> 0]
    ELSE IF Len(be.blob) < cki.compress_offset
    THEN [err |-> "offset", len |-> 0]
    ELSE [err |-> "",
          len |-> IF cfg.compressor = "GZip"
                  THEN GzipSize(Len(chunk), Len(be.blob) - cki.compress_offset)
                  ELSE cki.compress_size]

\* mod.rs 218-268: read_backend_chunk, without a raw_hook.  Returns
\* [err, n, chunk, read]: the error or "", the count, the chunk buffer as it
\* is left, and whether the backend was read.
ReadBackendChunk(cfg, be, cki, chunk) ==
    LET l == RawChunkLen(cfg, be, cki, chunk)
    IN  IF l.err # ""
        THEN [err |-> l.err, n |-> 0, chunk |-> chunk, read |-> FALSE]
        ELSE
        LET r   == BackendRead(be, l.len, cki.compress_offset)
            \* an uncompressed chunk is read into the chunk buffer itself
            got == IF cki.is_compressed THEN chunk
                   ELSE r.data \o SubSeq(chunk, Len(r.data) + 1, Len(chunk))
        IN  IF r.err
            THEN [err |-> "backend", n |-> 0, chunk |-> chunk, read |-> TRUE]
            ELSE IF Len(r.data) # l.len
            THEN [err |-> "short_read", n |-> 0, chunk |-> got, read |-> TRUE]
            ELSE LET p == ProcessRawChunk(cki, r.data, got, ~cki.is_compressed,
                                          cki.is_compressed, cfg.validate)
                 IN  [err |-> p.err, n |-> IF p.err = "" THEN Len(chunk) ELSE 0,
                      chunk |-> p.chunk, read |-> TRUE]

\* BlobCache::read_raw_chunk(chunk, buffer, None), as DummyCache::read calls
\* it: the chunk is read from the backend as read_backend_chunk reads it.
ReadRawChunk(cfg, be, cki, chunk) == ReadBackendChunk(cfg, be, cki, chunk)

(***************************************************************************)
(* The calls made on one DummyCache.                                       *)
(***************************************************************************)
\* BlobIoDesc: a range of a chunk.
Bio(cki, offset, size, user_io) ==
    [chunkinfo |-> cki, offset |-> offset, size |-> size, user_io |-> user_io]

\* Descriptors: user reads of a part or the whole of a chunk, and internal
\* reads of a whole chunk.
BioSet ==
    {Bio(ChunkPlain, 0, 2, TRUE), Bio(ChunkPlain, 0, 1, TRUE),
     Bio(ChunkPlain, 1, 1, TRUE), Bio(ChunkPacked, 0, 2, TRUE),
     Bio(ChunkPlain, 0, 2, FALSE)}

\* A byte of a caller's buffer that was never written.
Untouched == 7
NewBuf(n) == [i \in 1..n |-> Untouched]

\* utils::alloc_buf(size).
AllocBuf(n) == [i \in 1..n |-> 0]

\* The lengths of the buffers of a call.
BufLens == {<<1>>, <<2>>, <<1, 1>>, <<2, 2>>, <<4>>}

ReadArgs(bios, lens) == [bios |-> bios, lens |-> lens]
ReadArgsSet ==
    UNION {{ReadArgs(b, l) : b \in [1..n -> BioSet], l \in BufLens} : n \in 0..MaxBios}

\* The calls two or more readers make at once.
SharedArgsSet ==
    {ReadArgs(<<Bio(ChunkPlain, 0, 2, TRUE)>>, <<2>>),
     ReadArgs(<<Bio(ChunkPlain, 1, 1, TRUE), Bio(ChunkPacked, 0, 2, TRUE)>>, <<4>>),
     ReadArgs(<<Bio(ChunkPacked, 0, 2, TRUE)>>, <<1, 1>>)}

\* DummyCache as get_blob_cache builds it (dummycache.rs 191-198).
DummyCache(cached, compressor, prefetch, validate) ==
    [cached |-> cached, compressor |-> compressor, digester |-> "Blake3",
     prefetch |-> prefetch, validate |-> validate]
CacheSet ==
    {DummyCache(FALSE, "Lz4Block", TRUE, TRUE),
     DummyCache(TRUE, "Lz4Block", FALSE, FALSE),
     DummyCache(TRUE, "GZip", TRUE, TRUE),
     DummyCache(FALSE, "GZip", FALSE, FALSE)}

\* A call of process_raw_chunk on buffers of its own.
RawSet ==
    {<<1, 2>>, <<1, 3>>, <<1>>, <<9, 3, 2>>, <<9, 3, 1>>, <<8, 3, 2>>, <<9, 3>>}
ChunkArgs(cki, raw, len, nd, nv) ==
    [cki |-> cki, raw_chunk |-> raw, chunk |-> AllocBuf(len),
     need_decompress |-> nd, need_validate |-> nv]
ChunkArgsSet ==
    {ChunkArgs(c, r, l, nd, nv) :
        c \in ChunkSet, r \in RawSet, l \in 1..3, nd \in BOOLEAN, nv \in BOOLEAN}

\* What is done with one cache: the reads of the readers (None: the reader
\* makes no call), the number of prefetch, stop_prefetch and is_chunk_ready
\* calls, and the call of process_raw_chunk.
NoCalls == [t \in 1..MaxReaders |-> None]
SoloPlans ==
    {[cache |-> c, backend |-> b, aux |-> 0, chunk |-> None,
      reads |-> [NoCalls EXCEPT ![1] = Some(a)]] :
        c \in CacheSet, b \in BackendSet, a \in ReadArgsSet}
SharedPlans ==
    {[cache |-> c, backend |-> b, aux |-> 1, chunk |-> None,
      reads |-> [t \in 1..MaxReaders |-> Some(r[t])]] :
        c \in CacheSet, b \in BackendSet,
        r \in [1..MaxReaders -> SharedArgsSet]}
ChunkPlans ==
    {[cache |-> c, backend |-> BackendGood, aux |-> 0, chunk |-> Some(a),
      reads |-> NoCalls] :
        c \in CacheSet, a \in ChunkArgsSet}
PlanSet == SoloPlans \cup SharedPlans \cup ChunkPlans

VARIABLES
    plan,       \* history: what was drawn for this cache and its callers
    cache,      \* the DummyCache
    backend,    \* the blob's backend
    hints,      \* prefetch hints the backend accepted
    calls,      \* the read calls, per reader
    aux,        \* [left, op, res]: the last prefetch, stop_prefetch or
                \* is_chunk_ready call and its result
    prc         \* the call of process_raw_chunk and its result

cvars == <<plan, cache, backend, hints, calls, aux, prc>>

\* A call's return: err = "running" before it returns, "" for Ok(n).
Running == [err |-> "running", n |-> 0]
Ok(n) == [err |-> "", n |-> n]
Err(e) == [err |-> e, n |-> 0]

NewCall(a) ==
    [bios |-> a.bios, out |-> [k \in 1..Len(a.lens) |-> NewBuf(a.lens[k])],
     pc |-> "start", i |-> 1, holder |-> <<>>, user_size |-> 0,
     ret |-> Running, reads |-> <<>>, path |-> "none"]
IdleCall ==
    [bios |-> <<>>, out |-> <<>>, pc |-> "idle", i |-> 1, holder |-> <<>>,
     user_size |-> 0, ret |-> Running, reads |-> <<>>, path |-> "none"]

\* No cache is in use.
NoCache ==
    /\ plan = None
    /\ cache = None
    /\ backend = None
    /\ hints = 0
    /\ calls = <<>>
    /\ aux = None
    /\ prc = None

(***************************************************************************)
(* The state of one call of merge.                                         *)
(***************************************************************************)
VARIABLES
    pc,                \* position in merge
    args,              \* the arguments of the call
    result,            \* "running", "ok", or the error merge returned
    ctx,               \* BuildContext: conversion_type and chunk_size, as
                       \* BuildContext::default() sets them for the caller
    tree,              \* Option<Tree>: the accumulator
    blob_mgr,          \* BlobManager: [fill, blobs], blobs the BlobContexts
    blob_idx_map,      \* HashMap: blob id -> position in blob_mgr
    parent_layers,
    chunk_dict_blobs,  \* HashSet of the chunk dictionary's blob ids
    config,            \* Option<RafsSuperConfig>
    chunk_size,        \* Option<u32>
    layer_idx,         \* index of the source being processed, from 0
    rs,                \* the bootstrap loaded for that source
    blob_pos,          \* position of `for blob in blobs`, from 1
    parent_blob_added,
    blob_ctx,          \* the BlobContext built by the last iteration
    upper,             \* the layer's tree after walk_bfs
    target,            \* Option: the bootstrap dumped to `target`
    loads,             \* history: calls of RafsSuper::load_from_file
    dumps,             \* history: bootstraps dumped
    over_count,        \* history: a loaded layer held two or more blobs that
                       \* are not of the chunk dictionary
    steps              \* history: the steps that succeeded, in order

vars ==
    <<pc, args, result, ctx, tree, blob_mgr, blob_idx_map, parent_layers,
      chunk_dict_blobs, config, chunk_size, layer_idx, rs, blob_pos,
      parent_blob_added, blob_ctx, upper, target, loads, dumps, over_count,
      steps>>

\* The variables a step of the per-layer pass may leave alone.
NoRs == RafsSuper("", FALSE, 0, <<>>, <<>>)
NoBlobCtx == [none |-> TRUE]

Init ==
    /\ args \in MergeArgs
    /\ pc = "check_args"
    /\ result = "running"
    /\ ctx = [conversion_type |-> "DirectoryToRafs", chunk_size |-> CsA]
    /\ tree = None
    /\ blob_mgr = [fill |-> 0, blobs |-> <<>>]
    /\ blob_idx_map = <<>>
    /\ parent_layers = 0
    /\ chunk_dict_blobs = {}
    /\ config = None
    /\ chunk_size = None
    /\ layer_idx = 0
    /\ rs = NoRs
    /\ blob_pos = 1
    /\ parent_blob_added = FALSE
    /\ blob_ctx = NoBlobCtx
    /\ upper = <<>>
    /\ target = None
    /\ loads = 0
    /\ dumps = 0
    /\ over_count = FALSE
    /\ steps = <<>>
    /\ NoCache

\* bail!, ensure! and `?`: merge returns the error.
Fail(err) ==
    /\ pc' = "done"
    /\ result' = err

(***************************************************************************)
(* Lines 71-105: the argument checks.                                      *)
(***************************************************************************)
LenMatches(opt) == opt.some => Len(opt.v) = Len(args.sources)

\* Mutant: the length of blob_toc_sizes is not checked.
ArgsErrorTocSizesUnchecked ==
    IF Len(args.sources) = 0 THEN "empty_sources"
    ELSE IF ~LenMatches(args.blob_digests) THEN "digest_entries_mismatch"
    ELSE IF ~LenMatches(args.blob_sizes) THEN "size_entries_mismatch"
    ELSE IF ~LenMatches(args.blob_toc_digests) THEN "toc_digest_entries_mismatch"
    ELSE ""

ArgsError ==
    IF Len(args.sources) = 0 THEN "empty_sources"
    ELSE IF ~LenMatches(args.blob_digests) THEN "digest_entries_mismatch"
    ELSE IF ~LenMatches(args.blob_sizes) THEN "size_entries_mismatch"
    ELSE IF ~LenMatches(args.blob_toc_digests) THEN "toc_digest_entries_mismatch"
    ELSE IF ~LenMatches(args.blob_toc_sizes) THEN "toc_size_entries_mismatch"
    ELSE ""

CheckArgs ==
    /\ pc = "check_args"
    /\ UNCHANGED cvars
    /\ IF ArgsError # ""
       THEN /\ Fail(ArgsError)
            /\ UNCHANGED steps
       ELSE /\ pc' = "load_parent"
            /\ steps' = Append(steps, "check_args")
            /\ UNCHANGED result
    /\ UNCHANGED <<args, ctx, tree, blob_mgr, blob_idx_map, parent_layers,
                   chunk_dict_blobs, config, chunk_size, layer_idx, rs,
                   blob_pos, parent_blob_added, blob_ctx, upper, target,
                   loads, dumps, over_count>>

(***************************************************************************)
(* BlobManager and the blob id map.                                        *)
(***************************************************************************)
\* BlobManager::len
BlobMgrLen(mgr) == mgr.fill + Len(mgr.blobs)

\* BlobManager::add_blob
AddBlob(mgr, bc) == [mgr EXCEPT !.blobs = Append(@, bc)]

\* HashMap::insert: a present key's value is replaced.
MapInsert(map, key, value) ==
    [k \in (DOMAIN map) \cup {key} |-> IF k = key THEN value ELSE map[k]]

\* BlobContext::from(ctx, &blob, ChunkSource::Parent)
BlobContextFrom(blob) ==
    [blob_id |-> blob.blob_id, chunk_size |-> blob.chunk_size,
     separate |-> blob.separate,
     compressed_blob_size |-> blob.compressed_size,
     blob_meta_digest |-> blob.blob_meta_digest,
     blob_meta_size |-> blob.blob_meta_size,
     blob_toc_digest |-> blob.blob_toc_digest,
     blob_toc_size |-> blob.blob_toc_size]


(***************************************************************************)
(* Lines 112-125: load the parent bootstrap.                               *)
(***************************************************************************)
RECURSIVE IngestParentBlobs(_, _, _)
\* for blob in &blobs { blob_idx_map.insert(id, blob_mgr.len()); add_blob }
\* st = [mgr, map]; i the position in `blobs`.
IngestParentBlobs(blobs, i, st) ==
    IF i > Len(blobs) THEN st
    ELSE LET bc == BlobContextFrom(blobs[i])
         IN  IngestParentBlobs(blobs, i + 1,
                 [mgr |-> AddBlob(st.mgr, bc),
                  map |-> MapInsert(st.map, bc.blob_id, BlobMgrLen(st.mgr))])

LoadParent ==
    /\ pc = "load_parent"
    /\ UNCHANGED cvars
    /\ \/ /\ ~args.parent_bootstrap_path
          /\ pc' = "load_dict"
          /\ steps' = Append(steps, "no_parent")
          /\ UNCHANGED <<result, tree, blob_mgr, blob_idx_map, parent_layers,
                         loads>>
       \/ /\ args.parent_bootstrap_path
          /\ loads' = loads + 1
          /\ \/ /\ Fail("load_parent_bootstrap")   \* load_from_file fails
                /\ UNCHANGED <<tree, blob_mgr, blob_idx_map, parent_layers,
                               steps>>
             \/ \E p \in ParentSet :
                  LET st == IngestParentBlobs(p.blobs, 1,
                                [mgr |-> [fill |-> p.fill, blobs |-> <<>>],
                                 map |-> blob_idx_map])
                  IN  \/ /\ Len(p.blobs) > 0       \* BlobContext::from fails
                         /\ Fail("blob_context")
                         /\ UNCHANGED <<tree, blob_mgr, blob_idx_map,
                                        parent_layers, steps>>
                      \/ /\ Fail("tree_from_bootstrap")
                         /\ blob_mgr' = st.mgr
                         /\ blob_idx_map' = st.map
                         /\ parent_layers' = p.fill + Len(p.blobs)
                         /\ UNCHANGED <<tree, steps>>
                      \/ /\ blob_mgr' = st.mgr
                         /\ blob_idx_map' = st.map
                         /\ parent_layers' = p.fill + Len(p.blobs)
                         /\ tree' = Some(p.nodes)
                         /\ pc' = "load_dict"
                         /\ steps' = Append(steps, "parent")
                         /\ UNCHANGED result
    /\ UNCHANGED <<args, ctx, chunk_dict_blobs, config, chunk_size, layer_idx,
                   rs, blob_pos, parent_blob_added, blob_ctx, upper, target,
                   dumps, over_count>>

(***************************************************************************)
(* Lines 127-137: the blobs of the chunk dictionary.                       *)
(***************************************************************************)
\* rs.meta.get_config()
GetConfig(meta) == [compat |-> meta.compat, is_tarfs_mode |-> meta.is_tarfs_mode]

LoadDict ==
    /\ pc = "load_dict"
    /\ UNCHANGED cvars
    /\ \/ /\ ~args.chunk_dict
          /\ pc' = "load_layer"
          /\ steps' = Append(steps, "no_dict")
          /\ UNCHANGED <<result, chunk_dict_blobs, config, loads>>
       \/ /\ args.chunk_dict
          /\ loads' = loads + 1
          /\ \/ /\ Fail("load_chunk_dict_bootstrap")
                /\ UNCHANGED <<chunk_dict_blobs, config, steps>>
             \/ \E d \in DictSet :
                  /\ config' = Some(GetConfig(d.meta))
                  /\ chunk_dict_blobs' =
                         {d.blobs[i].blob_id : i \in 1..Len(d.blobs)}
                  /\ pc' = "load_layer"
                  /\ steps' = Append(steps, "dict")
                  /\ UNCHANGED result
    /\ UNCHANGED <<args, ctx, tree, blob_mgr, blob_idx_map, parent_layers,
                   chunk_size, layer_idx, rs, blob_pos, parent_blob_added,
                   blob_ctx, upper, target, dumps, over_count>>

(***************************************************************************)
(* Lines 142-159: load the bootstrap of sources[layer_idx].                *)
(***************************************************************************)
\* RafsSuperConfig::check_compatibility
CheckCompatibility(cfg, meta) == cfg.compat = meta.compat

\* History: the blobs of a bootstrap that are not blobs of the dictionary.
NewBlobCount(l, dict_ids) ==
    Cardinality({i \in 1..Len(l.blobs) : l.blobs[i].blob_id \notin dict_ids})

\* config.get_or_insert_with(|| rs.meta.get_config())
GetOrInsert(opt, meta) == IF opt.some THEN opt ELSE Some(GetConfig(meta))

LoadLayer ==
    /\ pc = "load_layer"
    /\ UNCHANGED cvars
    /\ loads' = loads + 1
    /\ blob_ctx' = NoBlobCtx
    /\ \/ /\ Fail("load_bootstrap")
          /\ UNCHANGED <<ctx, config, rs, blob_pos, parent_blob_added,
                         over_count, steps>>
       \/ \E l \in LayerSet :
            LET cfg == GetOrInsert(config, l.meta)
            IN  /\ config' = cfg
                /\ over_count' = (over_count \/ NewBlobCount(l, chunk_dict_blobs) >= 2)
                /\ IF ~CheckCompatibility(cfg.v, l.meta)
                   THEN /\ Fail("incompatible")
                        /\ UNCHANGED <<ctx, rs, blob_pos, parent_blob_added,
                                       steps>>
                   ELSE \/ /\ Fail("rafs_version")
                           /\ UNCHANGED <<ctx, rs, blob_pos, parent_blob_added,
                                          steps>>
                        \/ /\ ctx' = IF cfg.v.is_tarfs_mode
                                     THEN [ctx EXCEPT !.conversion_type = "TarToTarfs"]
                                     ELSE ctx
                           /\ rs' = l
                           /\ parent_blob_added' = FALSE
                           /\ blob_pos' = 1
                           /\ pc' = IF Len(l.blobs) = 0 THEN "walk" ELSE "blobs"
                           /\ steps' = Append(steps, "load")
                           /\ UNCHANGED result
    /\ UNCHANGED <<args, tree, blob_mgr, blob_idx_map, parent_layers,
                   chunk_dict_blobs, chunk_size, layer_idx, upper, target,
                   dumps>>


(***************************************************************************)
(* Lines 31-51: get_digest_from_list, get_size_from_list.                  *)
(* The result is [err, v]: err = "" and v the Option on success.           *)
(***************************************************************************)
GetDigestFromList(digests, idx) ==
    IF ~digests.some THEN [err |-> "", v |-> None]
    ELSE IF idx + 1 > Len(digests.v) THEN [err |-> "unmatched_digest_index", v |-> None]
    ELSE LET h == FromHex(digests.v[idx + 1])
         IN  IF h.ok THEN [err |-> "", v |-> Some(h.v)]
                     ELSE [err |-> "from_hex", v |-> None]

GetSizeFromList(sizes, idx) ==
    IF ~sizes.some THEN [err |-> "", v |-> None]
    ELSE IF idx + 1 > Len(sizes.v) THEN [err |-> "unmatched_size_index", v |-> None]
    ELSE [err |-> "", v |-> Some(sizes.v[idx + 1])]

\* BlobInfo::get_blob_id_from_meta_path: the file name of the bootstrap, which
\* must have the length of a blob id.
GetBlobIdFromMetaPath(path) ==
    IF Len(path.file_name) = 2 * DigestBytes
    THEN [err |-> "", v |-> path.file_name]
    ELSE [err |-> "blob_id_from_meta_path", v |-> <<>>]

\* `size as u32`, `*blob_index as u32`: the sizes and positions of the model
\* stay below 2^31, where the cast changes nothing.
AsU32(n) == n

(***************************************************************************)
(* Lines 182-212: the blob id and the overrides of a layer's new blob.     *)
(* Each step returns [err, bc]; a step after an error is not taken.        *)
(***************************************************************************)
\* Lines 182-191
ResolveBlobId(bc, blob, a, idx, conv) ==
    IF a.blob_accessible \/ conv = "TarToTarfs"
    THEN [err |-> "", bc |-> [bc EXCEPT !.blob_id = blob.blob_id]]
    ELSE LET r == GetBlobIdFromMetaPath(a.sources[idx + 1])
         IN  [err |-> r.err,
              bc  |-> IF r.err = "" THEN [bc EXCEPT !.blob_id = r.v] ELSE bc]

\* Mutant: the branches on SEPARATE are exchanged.
OverrideDigestExchanged(bc, blob, a, idx) ==
    LET r == GetDigestFromList(a.blob_digests, idx)
    IN  [err |-> r.err,
         bc  |-> IF r.err = "" /\ r.v.some
                 THEN IF ~blob.separate
                      THEN [bc EXCEPT !.blob_meta_digest = r.v.v]
                      ELSE [bc EXCEPT !.blob_id = HexEncode(r.v.v)]
                 ELSE bc]

\* Lines 192-198
OverrideDigest(bc, blob, a, idx) ==
    LET r == GetDigestFromList(a.blob_digests, idx)
    IN  [err |-> r.err,
         bc  |-> IF r.err = "" /\ r.v.some
                 THEN IF blob.separate
                      THEN [bc EXCEPT !.blob_meta_digest = r.v.v]
                      ELSE [bc EXCEPT !.blob_id = HexEncode(r.v.v)]
                 ELSE bc]

\* Lines 199-205
OverrideSize(bc, blob, a, idx) ==
    LET r == GetSizeFromList(a.blob_sizes, idx)
    IN  [err |-> r.err,
         bc  |-> IF r.err = "" /\ r.v.some
                 THEN IF blob.separate
                      THEN [bc EXCEPT !.blob_meta_size = r.v.v]
                      ELSE [bc EXCEPT !.compressed_blob_size = r.v.v]
                 ELSE bc]

\* Lines 206-209
OverrideTocDigest(bc, a, idx) ==
    LET r == GetDigestFromList(a.blob_toc_digests, idx)
    IN  [err |-> r.err,
         bc  |-> IF r.err = "" /\ r.v.some
                 THEN [bc EXCEPT !.blob_toc_digest = r.v.v] ELSE bc]

\* Lines 210-212
OverrideTocSize(bc, a, idx) ==
    LET r == GetSizeFromList(a.blob_toc_sizes, idx)
    IN  [err |-> r.err,
         bc  |-> IF r.err = "" /\ r.v.some
                 THEN [bc EXCEPT !.blob_toc_size = AsU32(r.v.v)] ELSE bc]

\* Lines 182-212 in order.
NewBlobContext(bc, blob, a, idx, conv) ==
    LET r1 == ResolveBlobId(bc, blob, a, idx, conv) IN
    IF r1.err # "" THEN r1 ELSE
    LET r2 == OverrideDigest(r1.bc, blob, a, idx) IN
    IF r2.err # "" THEN r2 ELSE
    LET r3 == OverrideSize(r2.bc, blob, a, idx) IN
    IF r3.err # "" THEN r3 ELSE
    LET r4 == OverrideTocDigest(r3.bc, a, idx) IN
    IF r4.err # "" THEN r4 ELSE
    OverrideTocSize(r4.bc, a, idx)

\* Line 173: the blob is not one of the chunk dictionary.
IsNewBlob(blob, dict_ids) == blob.blob_id \notin dict_ids

\* Mutant: a second new blob is let through.
MultipleDataBlobsIgnored(is_new, added) == FALSE

\* Lines 177-179: a second new blob in one layer.
MultipleDataBlobs(is_new, added) == is_new /\ added

\* Line 215: Entry::Vacant for the blob's own id, blob.blob_id().
IsVacant(map, blob) == blob.blob_id \notin DOMAIN map

\* Mutant: the entry records the position after the one it is added at.
VacantIndexOffByOne(mgr) == BlobMgrLen(mgr) + 1

\* Line 216: the position the entry records.
VacantIndex(mgr) == BlobMgrLen(mgr)

\* Mutant: a vacant entry's blob is put first in the table.
AddVacantFirst(map, mgr, blob, bc) ==
    IF IsVacant(map, blob)
    THEN [map |-> MapInsert(map, blob.blob_id, mgr.fill),
          mgr |-> [mgr EXCEPT !.blobs = <<bc>> \o @]]
    ELSE [map |-> map, mgr |-> mgr]

\* Lines 215-218: a blob whose own id is not in the map is added to the table
\* and its position recorded; st = [map, mgr].
AddVacant(map, mgr, blob, bc) ==
    IF IsVacant(map, blob)
    THEN [map |-> MapInsert(map, blob.blob_id, VacantIndex(mgr)),
          mgr |-> AddBlob(mgr, bc)]
    ELSE [map |-> map, mgr |-> mgr]

(***************************************************************************)
(* Lines 160-219: one iteration of `for blob in blobs`.                    *)
(***************************************************************************)
MergeBlob ==
    /\ pc = "blobs"
    /\ UNCHANGED cvars
    /\ LET blob   == rs.blobs[blob_pos]
           bc     == BlobContextFrom(blob)
           is_new == IsNewBlob(blob, chunk_dict_blobs)
           r      == IF is_new
                     THEN NewBlobContext(bc, blob, args, layer_idx,
                                         ctx.conversion_type)
                     ELSE [err |-> "", bc |-> bc]
       IN  \/ /\ Fail("blob_context")              \* BlobContext::from fails
              /\ UNCHANGED <<chunk_size, parent_blob_added, blob_ctx, blob_mgr,
                             blob_idx_map, blob_pos, steps>>
           \/ IF chunk_size.some /\ chunk_size.v # bc.chunk_size
              THEN /\ Fail("inconsistent_chunk_size")
                   /\ UNCHANGED <<chunk_size, parent_blob_added, blob_ctx,
                                  blob_mgr, blob_idx_map, blob_pos, steps>>
              ELSE /\ chunk_size' = Some(bc.chunk_size)
                   /\ IF MultipleDataBlobs(is_new, parent_blob_added)
                      THEN /\ Fail("multiple_data_blobs")
                           /\ UNCHANGED <<parent_blob_added, blob_ctx, blob_mgr,
                                          blob_idx_map, blob_pos, steps>>
                      ELSE /\ parent_blob_added' = (parent_blob_added \/ is_new)
                           /\ IF r.err # ""
                              THEN /\ Fail(r.err)
                                   /\ UNCHANGED <<blob_ctx, blob_mgr,
                                                  blob_idx_map, blob_pos, steps>>
                              ELSE /\ blob_ctx' = r.bc
                                   /\ LET st == AddVacant(blob_idx_map, blob_mgr,
                                                          blob, r.bc)
                                      IN  /\ blob_idx_map' = st.map
                                          /\ blob_mgr' = st.mgr
                                   /\ blob_pos' = blob_pos + 1
                                   /\ pc' = IF blob_pos = Len(rs.blobs)
                                            THEN "walk" ELSE "blobs"
                                   /\ steps' = IF blob_pos = Len(rs.blobs)
                                               THEN Append(steps, "blobs")
                                               ELSE steps
                                   /\ UNCHANGED result
    /\ UNCHANGED <<args, ctx, tree, parent_layers, chunk_dict_blobs, config,
                   layer_idx, rs, upper, target, loads, dumps, over_count>>


(***************************************************************************)
(* Lines 221-245: build the layer's tree and walk it.                      *)
(***************************************************************************)
\* Lines 225-230: the chunk's index in the blob table of the final bootstrap.
ReindexChunk(c, blobs, map) ==
    LET id == blobs[c + 1].blob_id
    IN  IF id \in DOMAIN map THEN AsU32(map[id]) ELSE c

\* Mutant: only u16::try_from(layer_idx) is tested, not the sum.
TooManyLayersIndexOnly(pl, li) == li > U16Max

\* Lines 234-241: u16::try_from(layer_idx) fails, or the sum passes u16::MAX.
TooManyLayers(pl, li) == li > U16Max \/ pl + li > U16Max

\* Line 242: idx + parent_layers as u16, in u16.
NodeLayerIdx(pl, li) == (li + (pl % (U16Max + 1))) % (U16Max + 1)

\* The closure of walk_bfs applied to one node.
VisitNode(n, blobs, map, pl, li) ==
    [n EXCEPT !.chunks = [k \in 1..Len(n.chunks) |->
                             ReindexChunk(n.chunks[k], blobs, map)],
              !.layer_idx = NodeLayerIdx(pl, li),
              !.overlay = "UpperAddition",
              !.origin = <<"src", li>>]

WalkTree ==
    /\ pc = "walk"
    /\ UNCHANGED cvars
    /\ \/ /\ Fail("tree_from_bootstrap")
          /\ UNCHANGED <<upper, steps>>
       \/ IF TooManyLayers(parent_layers, layer_idx)
          THEN /\ Fail("too_many_layers")
               /\ UNCHANGED <<upper, steps>>
          ELSE /\ upper' = [k \in 1..Len(rs.nodes) |->
                               VisitNode(rs.nodes[k], rs.blobs, blob_idx_map,
                                         parent_layers, layer_idx)]
               /\ pc' = "overlay"
               /\ steps' = Append(steps, "walk")
               /\ UNCHANGED result
    /\ UNCHANGED <<args, ctx, tree, blob_mgr, blob_idx_map, parent_layers,
                   chunk_dict_blobs, config, chunk_size, layer_idx, rs,
                   blob_pos, parent_blob_added, blob_ctx, target, loads, dumps, over_count>>

(***************************************************************************)
(* Lines 247-251: apply the layer to the accumulator.                      *)
(***************************************************************************)
\* Tree::merge_overaly: a whiteout of the upper tree deletes the lower path,
\* any other upper node replaces the lower node of its path or is added.
MergeOverlay(lower, up) ==
    LET touched == {up[k].path : k \in 1..Len(up)}
        had     == {lower[k].path : k \in 1..Len(lower)}
        kept    == SelectSeq(lower, LAMBDA n : n.path \notin touched)
        added   == SelectSeq(up, LAMBDA n : ~n.whiteout)
    IN  [k \in 1..Len(added) |->
            [added[k] EXCEPT !.overlay = IF added[k].path \in had
                                         THEN "UpperModification"
                                         ELSE "UpperAddition"]] \o kept

ApplyOverlay ==
    /\ pc = "overlay"
    /\ UNCHANGED cvars
    /\ \/ /\ tree.some
          /\ Fail("merge_overlay")
          /\ UNCHANGED <<tree, layer_idx, steps>>
       \/ /\ tree' = IF tree.some THEN Some(MergeOverlay(tree.v, upper))
                                  ELSE Some(upper)
          /\ layer_idx' = layer_idx + 1
          /\ pc' = IF layer_idx + 1 < Len(args.sources)
                   THEN "load_layer" ELSE "tarfs_guard"
          /\ steps' = Append(steps, "overlay")
          /\ UNCHANGED result
    /\ UNCHANGED <<args, ctx, blob_mgr, blob_idx_map, parent_layers,
                   chunk_dict_blobs, config, chunk_size, rs, blob_pos,
                   parent_blob_added, blob_ctx, upper, target, loads, dumps, over_count>>

(***************************************************************************)
(* Lines 254-261: TARFS conflicts with a parent and with a chunk dict.     *)
(***************************************************************************)
\* Mutant: the chunk dictionary is not looked at.
TarfsConflictParentOnly(conv, pl, dict_ids) ==
    IF conv # "TarToTarfs" THEN ""
    ELSE IF pl > 0 THEN "tarfs_conflicts_with_parent_bootstrap"
    ELSE ""

TarfsConflict(conv, pl, dict_ids) ==
    IF conv # "TarToTarfs" THEN ""
    ELSE IF pl > 0 THEN "tarfs_conflicts_with_parent_bootstrap"
    ELSE IF dict_ids # {} THEN "tarfs_conflicts_with_chunk_dict"
    ELSE ""

TarfsGuard ==
    /\ pc = "tarfs_guard"
    /\ UNCHANGED cvars
    /\ LET err == TarfsConflict(ctx.conversion_type, parent_layers,
                                chunk_dict_blobs)
       IN  IF err # ""
           THEN /\ Fail(err)
                /\ UNCHANGED steps
           ELSE /\ pc' = "build"
                /\ steps' = Append(steps, "tarfs_guard")
                /\ UNCHANGED result
    /\ UNCHANGED <<args, ctx, tree, blob_mgr, blob_idx_map, parent_layers,
                   chunk_dict_blobs, config, chunk_size, layer_idx, rs,
                   blob_pos, parent_blob_added, blob_ctx, upper, target,
                   loads, dumps, over_count>>

(***************************************************************************)
(* Lines 263-279: build and dump the merged bootstrap.                     *)
(***************************************************************************)
\* Lines 263-273: BootstrapContext::new, Bootstrap::new, build, to_blob_table.
Build ==
    /\ pc = "build"
    /\ UNCHANGED cvars
    /\ ctx' = [ctx EXCEPT !.chunk_size = IF chunk_size.some THEN chunk_size.v
                                         ELSE @]
    /\ \/ /\ Fail("bootstrap_build")
          /\ UNCHANGED steps
       \/ /\ pc' = "dump"
          /\ steps' = Append(steps, "build")
          /\ UNCHANGED result
    /\ UNCHANGED <<args, tree, blob_mgr, blob_idx_map, parent_layers,
                   chunk_dict_blobs, config, chunk_size, layer_idx, rs,
                   blob_pos, parent_blob_added, blob_ctx, upper, target,
                   loads, dumps, over_count>>

\* BlobManager::to_blob_table: the BlobContexts in their order.
ToBlobTable(mgr) == mgr

\* Lines 274-277: bootstrap.dump writes the bootstrap, or fails and writes none.
Dump ==
    /\ pc = "dump"
    /\ UNCHANGED cvars
    /\ \/ /\ Fail("dump_bootstrap")
          /\ UNCHANGED <<target, dumps, steps>>
       \/ /\ target' = Some([blob_table |-> ToBlobTable(blob_mgr),
                             nodes |-> tree.v,
                             chunk_size |-> ctx.chunk_size])
          /\ dumps' = dumps + 1
          /\ pc' = "output"
          /\ steps' = Append(steps, "dump")
          /\ UNCHANGED result
    /\ UNCHANGED <<args, ctx, tree, blob_mgr, blob_idx_map, parent_layers,
                   chunk_dict_blobs, config, chunk_size, layer_idx, rs,
                   blob_pos, parent_blob_added, blob_ctx, upper, loads, over_count>>

\* Line 278: BuildOutput::new.
Output ==
    /\ pc = "output"
    /\ UNCHANGED cvars
    /\ pc' = "done"
    /\ \/ result' = "build_output"
       \/ result' = "ok"
    /\ UNCHANGED <<args, ctx, tree, blob_mgr, blob_idx_map, parent_layers,
                   chunk_dict_blobs, config, chunk_size, layer_idx, rs,
                   blob_pos, parent_blob_added, blob_ctx, upper, target,
                   loads, dumps, over_count, steps>>

Next ==
    \/ CheckArgs
    \/ LoadParent
    \/ LoadDict
    \/ LoadLayer
    \/ MergeBlob
    \/ WalkTree
    \/ ApplyOverlay
    \/ TarfsGuard
    \/ Build
    \/ Dump
    \/ Output

Spec == Init /\ [][Next]_vars

(***************************************************************************)
(* DummyCache: the specification of the calls made on one cache.           *)
(***************************************************************************)
\* No merge is running.
NoMerge ==
    /\ pc = "idle"
    /\ args = None
    /\ result = "idle"
    /\ ctx = None
    /\ tree = None
    /\ blob_mgr = [fill |-> 0, blobs |-> <<>>]
    /\ blob_idx_map = <<>>
    /\ parent_layers = 0
    /\ chunk_dict_blobs = {}
    /\ config = None
    /\ chunk_size = None
    /\ layer_idx = 0
    /\ rs = NoRs
    /\ blob_pos = 1
    /\ parent_blob_added = FALSE
    /\ blob_ctx = NoBlobCtx
    /\ upper = <<>>
    /\ target = None
    /\ loads = 0
    /\ dumps = 0
    /\ over_count = FALSE
    /\ steps = <<>>

CacheInit ==
    /\ NoMerge
    /\ plan \in PlanSet
    /\ cache = plan.cache
    /\ backend = plan.backend
    /\ hints = 0
    /\ calls = [t \in 1..MaxReaders |->
                   IF plan.reads[t].some THEN NewCall(plan.reads[t].v)
                                         ELSE IdleCall]
    /\ aux = [left |-> plan.aux, op |-> "none", res |-> Running]
    /\ prc = IF plan.chunk.some
             THEN [pc |-> "call", res |-> [err |-> "running", chunk |-> <<>>]]
             ELSE [pc |-> "idle", res |-> [err |-> "running", chunk |-> <<>>]]

Return(c, r) == [c EXCEPT !.pc = "done", !.ret = r]

\* dummycache.rs 117: the destination buffer can receive the chunk.
FastPath(c) ==
    /\ Len(c.out) = 1
    /\ Len(c.bios) = 1
    /\ c.bios[1].offset = 0
    /\ Len(c.out[1]) >= c.bios[1].chunkinfo.decompress_size

\* dummycache.rs 108-125: the tests `read` makes before it reads a chunk.
ReadStart(t) ==
    /\ calls[t].pc = "start"
    /\ LET c == calls[t]
       IN  calls' = [calls EXCEPT ![t] =
             IF Len(c.bios) = 0 THEN Return(c, Err("einval"))
             ELSE IF FastPath(c)
             THEN IF ~c.bios[1].user_io
                  THEN Return([c EXCEPT !.path = "fast"], Ok(0))
                  ELSE [c EXCEPT !.pc = "fast", !.path = "fast"]
             ELSE [c EXCEPT !.pc = "loop", !.path = "general"]]
    /\ UNCHANGED <<plan, cache, backend, hints, aux, prc>>
    /\ UNCHANGED vars

\* dummycache.rs 121-122: the chunk is read into the first d_size bytes of
\* the caller's buffer.
ReadFast(t) ==
    /\ calls[t].pc = "fast"
    /\ LET c      == calls[t]
           d_size == c.bios[1].chunkinfo.decompress_size
           r      == ReadRawChunk(cache, backend, c.bios[1].chunkinfo,
                                  SubSeq(c.out[1], 1, d_size))
           buf    == r.chunk \o SubSeq(c.out[1], d_size + 1, Len(c.out[1]))
       IN  calls' = [calls EXCEPT ![t] =
             Return([c EXCEPT !.out = <<buf>>,
                              !.reads = IF r.read THEN Append(@, 1) ELSE @],
                    IF r.err = "" THEN Ok(r.n) ELSE Err(r.err))]
    /\ UNCHANGED <<plan, cache, backend, hints, aux, prc>>
    /\ UNCHANGED vars

\* Mutant: every descriptor is read.
NeedsReadAll(bio) == TRUE

\* dummycache.rs 128: only the chunks of user io are read.
NeedsRead(bio) == bio.user_io

\* dummycache.rs 127-134: one iteration of `for bio in bios.iter()`.
ReadLoop(t) ==
    /\ calls[t].pc = "loop"
    /\ LET c   == calls[t]
           bio == c.bios[c.i]
           r   == ReadRawChunk(cache, backend, bio.chunkinfo,
                               AllocBuf(bio.chunkinfo.decompress_size))
           nxt == [c EXCEPT !.i = @ + 1,
                            !.pc = IF c.i = Len(c.bios) THEN "copy" ELSE "loop"]
       IN  calls' = [calls EXCEPT ![t] =
             IF ~NeedsRead(bio) THEN nxt
             ELSE LET seen == [nxt EXCEPT !.reads = IF r.read THEN Append(@, c.i)
                                                              ELSE @]
                  IN  IF r.err # ""
                      THEN Return([seen EXCEPT !.i = c.i], Err(r.err))
                      ELSE [seen EXCEPT !.holder = Append(@, r.chunk),
                                        !.user_size = @ + bio.size]]
    /\ UNCHANGED <<plan, cache, backend, hints, aux, prc>>
    /\ UNCHANGED vars

\* `data` written to the buffers of `out`, in turn, from their fronts.
Scatter(data, out) ==
    [k \in 1..Len(out) |->
        LET before == Sum([m \in 1..(k - 1) |-> Len(out[m])])
        IN  [j \in 1..Len(out[k]) |->
                IF before + j <= Len(data) THEN data[before + j] ELSE out[k][j]]]

\* utils::copyv(src, dst, offset, max_size, 0, 0): max_size bytes of the
\* concatenation of src, from `offset`, are copied to dst.  Where the bytes
\* or the room for them are missing, the count is what could be copied, or
\* the copy fails.  The set of [ret, out].
Copyv(src, dst, offset, max_size) ==
    LET cat   == Flatten(src)
        room  == Sum([k \in 1..Len(dst) |-> Len(dst[k])])
        avail == IF offset >= Len(cat) THEN 0 ELSE Len(cat) - offset
        n     == Min(max_size, Min(avail, room))
        done  == [ret |-> Ok(n), out |-> Scatter(SubSeq(cat, offset + 1, offset + n), dst)]
    IN  IF n = max_size THEN {done}
        ELSE {done, [ret |-> Err("copyv"), out |-> dst]}

\* dummycache.rs 136-138.
ReadCopy(t) ==
    /\ calls[t].pc = "copy"
    /\ LET c == calls[t]
       IN  \E o \in Copyv(c.holder, c.out, c.bios[1].offset, c.user_size) :
             calls' = [calls EXCEPT ![t] = Return([c EXCEPT !.out = o.out], o.ret)]
    /\ UNCHANGED <<plan, cache, backend, hints, aux, prc>>
    /\ UNCHANGED vars

\* dummycache.rs 67-96: prefetch(prefetches, bios) with np ranges and nb
\* descriptors, of which the backend takes `taken`.
Prefetch ==
    /\ aux.left > 0
    /\ \E np \in 0..1, nb \in 0..1 :
         IF cache.prefetch
         THEN \E taken \in 0..(np + nb) :
                /\ aux' = [left |-> aux.left - 1, op |-> "prefetch",
                           res |-> Ok(taken)]
                /\ hints' = hints + taken
         ELSE /\ aux' = [left |-> aux.left - 1, op |-> "prefetch",
                         res |-> Err("Unsupported")]
              /\ hints' = hints
    /\ UNCHANGED <<plan, cache, backend, calls, prc>>
    /\ UNCHANGED vars

\* Mutant: stopping the prefetch turns it off.
AfterStopPrefetchOff(c) == [c EXCEPT !.prefetch = FALSE]

\* dummycache.rs 98-105: stop_prefetch does nothing to the cache.
AfterStopPrefetch(c) == c

StopPrefetch ==
    /\ aux.left > 0
    /\ aux' = [left |-> aux.left - 1, op |-> "stop_prefetch", res |-> Ok(0)]
    /\ cache' = AfterStopPrefetch(cache)
    /\ UNCHANGED <<plan, backend, hints, calls, prc>>
    /\ UNCHANGED vars

\* dummycache.rs 63-65: is_chunk_ready, the answer as Ok(1) or Ok(0).
IsChunkReady ==
    /\ aux.left > 0
    /\ aux' = [left |-> aux.left - 1, op |-> "is_chunk_ready",
               res |-> Ok(IF cache.cached THEN 1 ELSE 0)]
    /\ UNCHANGED <<plan, cache, backend, hints, calls, prc>>
    /\ UNCHANGED vars

\* A caller of process_raw_chunk with buffers of its own (as read_chunks,
\* mod.rs 198-205).
ProcessChunk ==
    /\ prc.pc = "call"
    /\ LET a == plan.chunk.v
       IN  prc' = [pc |-> "done",
                   res |-> ProcessRawChunk(a.cki, a.raw_chunk, a.chunk, FALSE,
                                           a.need_decompress, a.need_validate)]
    /\ UNCHANGED <<plan, cache, backend, hints, calls, aux>>
    /\ UNCHANGED vars

CacheNext ==
    \/ \E t \in 1..MaxReaders : ReadStart(t)
    \/ \E t \in 1..MaxReaders : ReadFast(t)
    \/ \E t \in 1..MaxReaders : ReadLoop(t)
    \/ \E t \in 1..MaxReaders : ReadCopy(t)
    \/ Prefetch
    \/ StopPrefetch
    \/ IsChunkReady
    \/ ProcessChunk

CacheSpec == CacheInit /\ [][CacheNext]_cvars



(***************************************************************************)
(*                              Properties                                 *)
(***************************************************************************)
Count(seq, x) == Cardinality({i \in 1..Len(seq) : seq[i] = x})

\* The nodes a source layer contributed.
FromSource(n) == n.origin[1] = "src"

ChunksWithin(nodes, mgr) ==
    \A k \in 1..Len(nodes) :
        FromSource(nodes[k]) =>
            \A j \in 1..Len(nodes[k].chunks) :
                /\ nodes[k].chunks[j] >= 0
                /\ nodes[k].chunks[j] < BlobMgrLen(mgr)

\* C1: every chunk of every node a source layer contributed has, once the
\* layer's tree is walked, a blob_index below the length of the merged blob
\* table: after each layer, in the accumulator, and in the dumped bootstrap.
C1_ChunkIndexInTable ==
    /\ ChunksWithin(upper, blob_mgr)
    /\ tree.some => ChunksWithin(tree.v, blob_mgr)
    /\ target.some => ChunksWithin(target.v.nodes, target.v.blob_table)

\* A merge on a parent succeeded, and a chunk of a source layer was re-indexed
\* to the last entry of a table of two or more.
C1_Witness ==
    /\ result = "ok"
    /\ args.parent_bootstrap_path
    /\ BlobMgrLen(target.v.blob_table) >= 2
    /\ \E k \in 1..Len(target.v.nodes) :
         /\ FromSource(target.v.nodes[k])
         /\ \E j \in 1..Len(target.v.nodes[k].chunks) :
              target.v.nodes[k].chunks[j] = BlobMgrLen(target.v.blob_table) - 1

\* C2: the dumped blob table holds no two entries with the same blob_id.
C2_NoDuplicateBlobId ==
    target.some =>
        \A i, j \in 1..Len(target.v.blob_table.blobs) :
            i # j => target.v.blob_table.blobs[i].blob_id #
                     target.v.blob_table.blobs[j].blob_id

\* The errors a layer can raise after its bootstrap is loaded and before its
\* blob loop reaches the layer's second new blob.
BeforeSecondNewBlob ==
    {"incompatible", "rafs_version", "blob_context", "inconsistent_chunk_size",
     "blob_id_from_meta_path", "from_hex"}

\* C3: once a layer with two or more non-dictionary blobs is loaded, the merge
\* goes no further than that layer's blob loop: it fails, with the
\* multiple-data-blobs error unless the layer failed before its second new
\* blob was reached, and nothing is dumped; and that error is raised only for a layer
\* with two or more non-dictionary blobs.
C3_MultipleDataBlobs ==
    /\ over_count =>
         /\ pc \in {"blobs", "done"}
         /\ ~target.some
         /\ pc = "done" =>
              result \in {"multiple_data_blobs"} \cup BeforeSecondNewBlob
    /\ result = "multiple_data_blobs" =>
         /\ NewBlobCount(rs, chunk_dict_blobs) >= 2
         /\ dumps = 0

\* A layer of a merge with a chunk dictionary was refused for its two new blobs.
C3_Witness ==
    /\ result = "multiple_data_blobs"
    /\ chunk_dict_blobs # {}
    /\ pc = "done"

\* C4: all blobs of the dumped blob table share one chunk_size, the
\* chunk_size of the output.
C4_OneChunkSize ==
    target.some =>
        \A i \in 1..Len(target.v.blob_table.blobs) :
            target.v.blob_table.blobs[i].chunk_size = target.v.chunk_size

\* C5: every node of the dumped tree has layer_idx < parent_layers + |sources|,
\* which is at most 65536, and nodes of different layers have different
\* layer_idx.
C5_LayerIdx ==
    target.some =>
        /\ parent_layers + Len(args.sources) <= U16Max + 1
        /\ \A k \in 1..Len(target.v.nodes) :
             target.v.nodes[k].layer_idx < parent_layers + Len(args.sources)
        /\ \A k, m \in 1..Len(target.v.nodes) :
             target.v.nodes[k].origin # target.v.nodes[m].origin =>
                 target.v.nodes[k].layer_idx # target.v.nodes[m].layer_idx

\* C6: a merge in TARFS mode that was given a parent bootstrap or a chunk
\* dictionary fails and dumps nothing.
C6_TarfsAlone ==
    (/\ pc = "done"
     /\ ctx.conversion_type = "TarToTarfs"
     /\ (args.parent_bootstrap_path \/ args.chunk_dict)) =>
        /\ result # "ok"
        /\ ~target.some

\* The order of the steps of merge: each may only follow the one before it.
StepOrder ==
    {<<"check_args", "parent">>, <<"check_args", "no_parent">>,
     <<"parent", "dict">>, <<"parent", "no_dict">>,
     <<"no_parent", "dict">>, <<"no_parent", "no_dict">>,
     <<"dict", "load">>, <<"no_dict", "load">>,
     <<"load", "blobs">>, <<"load", "walk">>, <<"blobs", "walk">>,
     <<"walk", "overlay">>, <<"overlay", "load">>,
     <<"overlay", "tarfs_guard">>, <<"tarfs_guard", "build">>,
     <<"build", "dump">>}

\* What each check of merge requires, stated on the arguments and the state.
ArraysMatch ==
    /\ Len(args.sources) > 0
    /\ args.blob_digests.some =>
         Len(args.blob_digests.v) = Len(args.sources)
    /\ args.blob_sizes.some =>
         Len(args.blob_sizes.v) = Len(args.sources)
    /\ args.blob_toc_digests.some =>
         Len(args.blob_toc_digests.v) = Len(args.sources)
    /\ args.blob_toc_sizes.some =>
         Len(args.blob_toc_sizes.v) = Len(args.sources)

TarfsAllowed ==
    ctx.conversion_type = "TarToTarfs" =>
        /\ parent_layers = 0
        /\ chunk_dict_blobs = {}

\* The errors of the steps that follow the dump.
AfterDump == {"build_output"}

\* C7: the bootstrap is dumped at most once, and only after the argument
\* checks, the parent and chunk-dict loads, the pass of every layer and the
\* TARFS guard have succeeded, in that order; a merge that failed in one of
\* these steps has dumped nothing, and a merge that has returned takes no
\* further step.
C7_DumpLast ==
    /\ dumps <= 1
    /\ target.some <=> dumps = 1
    /\ \A i \in 1..(Len(steps) - 1) : <<steps[i], steps[i + 1]>> \in StepOrder
    /\ dumps = 1 =>
         /\ steps[1] = "check_args"
         /\ steps[Len(steps)] = "dump"
         /\ Count(steps, "load") = Len(args.sources)
         /\ Count(steps, "walk") = Len(args.sources)
         /\ Count(steps, "overlay") = Len(args.sources)
         /\ loads = Len(args.sources)
                    + (IF args.parent_bootstrap_path THEN 1 ELSE 0)
                    + (IF args.chunk_dict THEN 1 ELSE 0)
         /\ ArraysMatch
         /\ TarfsAllowed
         /\ ~over_count
         /\ parent_layers + Len(args.sources) <= U16Max + 1
         /\ result \in {"running", "ok"} \cup AfterDump
    /\ result \notin {"running", "ok"} \cup AfterDump => dumps = 0
    /\ result # "running" <=> pc = "done"
    /\ pc = "done" => ~ENABLED Next

\* A merge of the most sources on a parent and with a chunk dictionary dumped.
C7_Witness ==
    /\ dumps = 1
    /\ result = "ok"
    /\ args.parent_bootstrap_path
    /\ args.chunk_dict
    /\ Len(args.sources) = MaxSources

ArityErrors ==
    {"empty_sources", "digest_entries_mismatch", "size_entries_mismatch",
     "toc_digest_entries_mismatch", "toc_size_entries_mismatch"}

\* C8: with no source, or with an array whose length is not the number of
\* sources, merge fails before it loads a bootstrap; otherwise it raises
\* none of these errors, and an index into an array is never unmatched.
C8_Arity ==
    /\ ~ArraysMatch =>
         /\ pc \in {"check_args", "done"}
         /\ loads = 0
         /\ pc = "done" => result \in ArityErrors
    /\ ArraysMatch => result \notin ArityErrors
    /\ result \notin {"unmatched_digest_index", "unmatched_size_index"}

\* A merge whose only fault is the length of blob_toc_sizes was refused.
C8_Witness ==
    /\ result = "toc_size_entries_mismatch"
    /\ Len(args.sources) > 0
    /\ args.blob_digests.some
    /\ args.blob_sizes.some
    /\ args.blob_toc_digests.some
    /\ loads = 0

\* The lower-case text of a hex text.
LowerCase(t) ==
    [i \in 1..Len(t) |->
        IF \E k \in 1..6 : HexUpper[k] = t[i]
        THEN HexLower[10 + (CHOOSE k \in 1..6 : HexUpper[k] = t[i])]
        ELSE t[i]]

\* The id a layer's new blob resolves to before the overrides: its own, or
\* the file name of the layer's bootstrap.
ResolvedId(blob, idx) ==
    IF args.blob_accessible \/ ctx.conversion_type = "TarToTarfs"
    THEN blob.blob_id
    ELSE args.sources[idx + 1].file_name

\* The blob the last iteration of the blob loop built blob_ctx from.
LastBlob == rs.blobs[blob_pos - 1]

BlobCtxBuilt ==
    /\ pc \in {"blobs", "walk"}
    /\ blob_pos > 1
    /\ blob_ctx # NoBlobCtx

\* C9: for the new blob of layer i, blob_digests[i] and blob_sizes[i] go to
\* blob_meta_digest and blob_meta_size if the blob is SEPARATE, and leave
\* blob_id and compressed_blob_size as resolved; otherwise they go to blob_id
\* (as lower-case hex) and compressed_blob_size, and leave blob_meta_digest
\* and blob_meta_size alone.  The BlobContext of a dictionary blob is the one
\* built from its BlobInfo.
C9_Overrides ==
    BlobCtxBuilt =>
        LET blob == LastBlob
            from == BlobContextFrom(blob)
            dg   == args.blob_digests
            sz   == args.blob_sizes
        IN  IF blob.blob_id \in chunk_dict_blobs
            THEN blob_ctx = from
            ELSE IF blob.separate
            THEN /\ blob_ctx.blob_id = ResolvedId(blob, layer_idx)
                 /\ blob_ctx.compressed_blob_size = from.compressed_blob_size
                 /\ blob_ctx.blob_meta_digest =
                        IF dg.some THEN FromHex(dg.v[layer_idx + 1]).v
                                   ELSE from.blob_meta_digest
                 /\ blob_ctx.blob_meta_size =
                        IF sz.some THEN sz.v[layer_idx + 1]
                                   ELSE from.blob_meta_size
            ELSE /\ blob_ctx.blob_id =
                        IF dg.some THEN LowerCase(dg.v[layer_idx + 1])
                                   ELSE ResolvedId(blob, layer_idx)
                 /\ blob_ctx.compressed_blob_size =
                        IF sz.some THEN sz.v[layer_idx + 1]
                                   ELSE from.compressed_blob_size
                 /\ blob_ctx.blob_meta_digest = from.blob_meta_digest
                 /\ blob_ctx.blob_meta_size = from.blob_meta_size

\* The new blob of a layer is SEPARATE and was given a digest and a size.
C9_Witness ==
    /\ BlobCtxBuilt
    /\ LastBlob.blob_id \notin chunk_dict_blobs
    /\ LastBlob.separate
    /\ args.blob_digests.some
    /\ args.blob_sizes.some
    /\ ~args.blob_accessible

\* The case of C10: one source on no parent, with a chunk dictionary; the
\* layer names blobs of the dictionary and one blob of its own.
OneLayerOnDict ==
    /\ Len(args.sources) = 1
    /\ ~args.parent_bootstrap_path
    /\ args.chunk_dict
    /\ pc \in {"output", "done"}
    /\ NewBlobCount(rs, chunk_dict_blobs) = 1
    /\ NewBlobCount(rs, chunk_dict_blobs) < Len(rs.blobs)

\* C10 as claimed: the merge raises no multiple-data-blobs error, and in the
\* dumped blob table the blobs of the dictionary come before the layer's new
\* blob, wherever the layer's own blob list has them.
C10_DictBlobsFirst ==
    OneLayerOnDict =>
        /\ result # "multiple_data_blobs"
        /\ target.some =>
             /\ Len(target.v.blob_table.blobs) = Len(rs.blobs)
             /\ \A i, j \in 1..Len(target.v.blob_table.blobs) :
                  (/\ target.v.blob_table.blobs[i].blob_id \in chunk_dict_blobs
                   /\ target.v.blob_table.blobs[j].blob_id \notin chunk_dict_blobs)
                  => i < j

\* C10 as amended: the merge raises no multiple-data-blobs error, and the
\* dumped blob table holds the layer's blobs in the order of the layer's own
\* blob list: a blob of the dictionary under its id, the new blob under the
\* id resolved for it.
C10_LayerOrder ==
    OneLayerOnDict =>
        /\ result # "multiple_data_blobs"
        /\ target.some =>
             /\ Len(target.v.blob_table.blobs) = Len(rs.blobs)
             /\ target.v.blob_table.fill = 0
             /\ \A i \in 1..Len(rs.blobs) :
                  IF rs.blobs[i].blob_id \in chunk_dict_blobs
                  THEN target.v.blob_table.blobs[i].blob_id = rs.blobs[i].blob_id
                  ELSE target.v.blob_table.blobs[i].blob_id =
                           IF args.blob_digests.some /\ ~rs.blobs[i].separate
                           THEN LowerCase(args.blob_digests.v[1])
                           ELSE ResolvedId(rs.blobs[i], 0)

\* The layer names its own blob before the blob of the dictionary, and the
\* merge dumped.
C10_Witness ==
    /\ OneLayerOnDict
    /\ result = "ok"
    /\ target.some
    /\ rs.blobs[1].blob_id \notin chunk_dict_blobs
    /\ rs.blobs[2].blob_id \in chunk_dict_blobs


\* C14: the nodes of sources[i] leave the walk with layer_idx = parent_layers + i,
\* not reduced modulo 2^16, and overlay = UpperAddition, and keep that
\* layer_idx in the accumulator and in the dumped tree; a walk with
\* parent_layers + i > 65535 assigns nothing, and merge fails with the
\* too-many-layers error and dumps nothing.
C14_LayerIdxExact ==
    /\ pc = "overlay" =>
         /\ parent_layers + layer_idx <= U16Max
         /\ Len(upper) = Len(rs.nodes)
         /\ \A k \in 1..Len(upper) :
              /\ upper[k].layer_idx = parent_layers + layer_idx
              /\ upper[k].overlay = "UpperAddition"
    /\ tree.some =>
         \A k \in 1..Len(tree.v) :
             FromSource(tree.v[k]) =>
                 tree.v[k].layer_idx = parent_layers + tree.v[k].origin[2]
    /\ target.some =>
         \A k \in 1..Len(target.v.nodes) :
             FromSource(target.v.nodes[k]) =>
                 target.v.nodes[k].layer_idx =
                     parent_layers + target.v.nodes[k].origin[2]
    /\ (pc = "done" /\ Count(steps, "walk") > 0) =>
         parent_layers + Count(steps, "walk") - 1 <= U16Max
    /\ result = "too_many_layers" =>
         /\ parent_layers + layer_idx > U16Max
         /\ Count(steps, "walk") = layer_idx
         /\ ~target.some

\* On a parent of u16::MAX blobs the first source was given layer_idx 65535
\* and the second was refused.
C14_Witness ==
    /\ result = "too_many_layers"
    /\ parent_layers = U16Max
    /\ layer_idx = 1
    /\ tree.some
    /\ \E k \in 1..Len(tree.v) :
         FromSource(tree.v[k]) /\ tree.v[k].layer_idx = U16Max

\* The id the blob table is to hold for a blob of sources[idx]: its own id
\* for a blob of the chunk dictionary, else the id resolved for it and
\* overridden by blob_digests[idx].
CanonicalId(blob, idx) ==
    IF blob.blob_id \in chunk_dict_blobs THEN blob.blob_id
    ELSE IF args.blob_digests.some /\ ~blob.separate
    THEN LowerCase(args.blob_digests.v[idx + 1])
    ELSE ResolvedId(blob, idx)

\* The entry of the merged blob table at position i, from 0.
EntryAt(mgr, i) == mgr.blobs[i - mgr.fill + 1]

\* C16: after the walk of a layer, every chunk of the layer's nodes points to
\* a blob table entry that carries the id resolved for the chunk's own blob
\* of that layer.
C16_ChunkKeepsOwnBlob ==
    pc = "overlay" =>
        \A k \in 1..Len(upper) :
            \A j \in 1..Len(upper[k].chunks) :
                LET src == rs.blobs[rs.nodes[k].chunks[j] + 1]
                    i   == upper[k].chunks[j]
                IN  /\ i >= blob_mgr.fill
                    /\ i < BlobMgrLen(blob_mgr)
                    /\ EntryAt(blob_mgr, i).blob_id = CanonicalId(src, layer_idx)


(***************************************************************************)
(* Properties of DummyCache, under CacheSpec.                              *)
(***************************************************************************)
Room(out) == Sum([k \in 1..Len(out) |-> Len(out[k])])
DecompressedSize(bios) ==
    Sum([k \in 1..Len(bios) |-> bios[k].chunkinfo.decompress_size])
UserSize(bios) ==
    Sum([k \in 1..Len(bios) |-> IF bios[k].user_io THEN bios[k].size ELSE 0])
IsUntouched(out) ==
    \A k \in 1..Len(out) : \A j \in 1..Len(out[k]) : out[k][j] = Untouched

\* C11: a read of one or more descriptors, into buffers with room for the
\* decompressed chunks, that the backend serves without error returns the
\* sum of the sizes of its user io descriptors, on the fast path and on the
\* general path; one descriptor that is not user io returns 0 on the fast
\* path, and neither the backend nor the buffer is touched.
C11_CountIsUserSize ==
    \A t \in 1..MaxReaders :
        LET c == calls[t]
        IN  (/\ c.pc = "done"
             /\ Len(c.bios) > 0
             /\ Room(c.out) >= DecompressedSize(c.bios)
             /\ c.ret.err = "") =>
                /\ c.ret.n = UserSize(c.bios)
                /\ (c.path = "fast" /\ ~c.bios[1].user_io) =>
                       /\ c.ret.n = 0
                       /\ c.reads = <<>>
                       /\ IsUntouched(c.out)


\* The chunks of the user io descriptors of a call, in descriptor order.
UserChunks(bios) ==
    LET user == SelectSeq(bios, LAMBDA b : b.user_io)
    IN  [k \in 1..Len(user) |-> user[k].chunkinfo]

\* Every chunk a successful read delivered hashes to its block_id.
DeliveredChecked(c) ==
    IF c.path = "fast"
    THEN c.bios[1].user_io =>
            DigestCheck(SubSeq(c.out[1], 1, c.bios[1].chunkinfo.decompress_size),
                        c.bios[1].chunkinfo.block_id)
    ELSE /\ Len(c.holder) = Len(UserChunks(c.bios))
         /\ \A k \in 1..Len(c.holder) :
              DigestCheck(c.holder[k], UserChunks(c.bios)[k].block_id)

\* What C12 says of validate = true, and of the digest with validate = false.
ValidateRejects ==
    /\ prc.pc = "done" =>
         LET a == plan.chunk.v
         IN  /\ (a.need_validate /\ prc.res.err = "") =>
                    DigestCheck(prc.res.chunk, a.cki.block_id)
             /\ ~a.need_validate => prc.res.err # "digest"
    /\ \A t \in 1..MaxReaders :
         LET c == calls[t]
         IN  /\ (cache.validate /\ c.pc = "done" /\ c.ret.err = ""
                 /\ Len(c.bios) > 0) => DeliveredChecked(c)
             /\ ~cache.validate => c.ret.err # "digest"

\* C12 as claimed: with validate = true a chunk whose bytes do not hash to
\* its block_id is never returned with success, by process_raw_chunk or by a
\* read; with validate = false the digest is not checked, and
\* process_raw_chunk returns an error only when the chunk's length is not
\* decompress_size.
C12_OnlyLengthRejects ==
    /\ ValidateRejects
    /\ prc.pc = "done" =>
         LET a == plan.chunk.v
         IN  (~a.need_validate /\ prc.res.err \notin {"", "panic"}) =>
                 Len(a.chunk) # a.cki.decompress_size

\* C12 as amended: as claimed for validate = true; with validate = false the
\* digest is not checked, and process_raw_chunk returns an error only when
\* the decompression fails or the chunk's length is not decompress_size.
C12_ValidateRejects ==
    /\ ValidateRejects
    /\ prc.pc = "done" =>
         LET a == plan.chunk.v
         IN  ~a.need_validate =>
                 /\ prc.res.err = "decompress" <=>
                        (a.need_decompress /\ Decompress(a.raw_chunk, a.chunk).err)
                 /\ prc.res.err = "length" =>
                        Len(a.chunk) # a.cki.decompress_size
                 /\ prc.res.err \in {"", "decompress", "length", "panic"}
                 /\ prc.res.err = "panic" =>
                        (~a.need_decompress /\ Len(a.raw_chunk) # Len(a.chunk))

\* With validate = true, a read of a chunk of which the backend holds a
\* changed byte failed for the digest.
C12_Witness ==
    /\ cache.validate
    /\ backend.blob # BlobGood
    /\ \E t \in 1..MaxReaders :
         /\ calls[t].pc = "done"
         /\ calls[t].ret.err = "digest"


\* The loop of `read` over `bios`, run at once: acc = [holder, user_size, err].
RECURSIVE LoopAlone(_, _, _, _)
LoopAlone(cfg, be, bios, acc) ==
    IF Len(bios) = 0 THEN acc
    ELSE LET bio == Head(bios)
             r   == ReadRawChunk(cfg, be, bio.chunkinfo,
                                 AllocBuf(bio.chunkinfo.decompress_size))
         IN  IF ~bio.user_io THEN LoopAlone(cfg, be, Tail(bios), acc)
             ELSE IF r.err # "" THEN [acc EXCEPT !.err = r.err]
             ELSE LoopAlone(cfg, be, Tail(bios),
                            [holder |-> Append(acc.holder, r.chunk),
                             user_size |-> acc.user_size + bio.size,
                             err |-> ""])

\* What read(a.bios, bufs of a.lens) may return on cache `cfg` over backend
\* `be` when no other call is made: the set of [ret, out].
ReadAlone(cfg, be, a) ==
    LET out0 == [k \in 1..Len(a.lens) |-> NewBuf(a.lens[k])]
    IN  IF Len(a.bios) = 0 THEN {[ret |-> Err("einval"), out |-> out0]}
        ELSE
        LET d_size == a.bios[1].chunkinfo.decompress_size
        IN  IF /\ Len(a.lens) = 1 /\ Len(a.bios) = 1
               /\ a.bios[1].offset = 0 /\ a.lens[1] >= d_size
            THEN IF ~a.bios[1].user_io THEN {[ret |-> Ok(0), out |-> out0]}
                 ELSE LET r == ReadRawChunk(cfg, be, a.bios[1].chunkinfo,
                                            NewBuf(d_size))
                      IN  {[ret |-> IF r.err = "" THEN Ok(r.n) ELSE Err(r.err),
                            out |-> <<r.chunk \o NewBuf(a.lens[1] - d_size)>>]}
            ELSE LET l == LoopAlone(cfg, be, a.bios,
                                    [holder |-> <<>>, user_size |-> 0, err |-> ""])
                 IN  IF l.err # "" THEN {[ret |-> Err(l.err), out |-> out0]}
                     ELSE Copyv(l.holder, out0, a.bios[1].offset, l.user_size)

\* C13: whatever the interleaving of the reads of the readers and of the
\* prefetch, stop_prefetch and is_chunk_ready calls, a read that has returned
\* has the count and the buffer contents it has when it is the only call; and
\* the cache and its backend stay as they were at creation.
C13_ReadsIndependent ==
    /\ cache = plan.cache
    /\ backend = plan.backend
    /\ \A t \in 1..MaxReaders :
         (plan.reads[t].some /\ calls[t].pc = "done") =>
             [ret |-> calls[t].ret, out |-> calls[t].out]
                 \in ReadAlone(plan.cache, plan.backend, plan.reads[t].v)

\* Every reader has returned from a read of its own, two of them with
\* different results, and a stop_prefetch or prefetch call was made meanwhile.
C13_Witness ==
    /\ \A t \in 1..MaxReaders : plan.reads[t].some /\ calls[t].pc = "done"
    /\ calls[1].ret # calls[2].ret
    /\ calls[1].ret.err = ""
    /\ aux.op \in {"stop_prefetch", "prefetch"}

IsPrefix(p, q) == Len(p) <= Len(q) /\ SubSeq(q, 1, Len(p)) = p

\* The positions of the user io descriptors among the first n of bios.
UserPositions(bios, n) ==
    SelectSeq([k \in 1..n |-> k], LAMBDA k : bios[k].user_io)

\* C15: on the general path the backend is read in descriptor order, once
\* per user io descriptor and not for the others; the first failure ends the
\* call with its error and nothing is read after it nor a second time; and
\* the caller's buffers are written only once every user io chunk was read.
C15_InOrderNoRetry ==
    \A t \in 1..MaxReaders :
        LET c   == calls[t]
            all == UserPositions(c.bios, Len(c.bios))
        IN  c.path = "general" =>
              /\ IsPrefix(c.reads, all)
              /\ c.pc = "loop" =>
                   /\ c.reads = UserPositions(c.bios, c.i - 1)
                   /\ Len(c.holder) = Len(c.reads)
              /\ c.pc = "copy" => c.reads = all /\ Len(c.holder) = Len(all)
              /\ (c.pc = "done" /\ c.ret.err \in {"", "copyv"}) =>
                   c.reads = all /\ Len(c.holder) = Len(all)
              /\ (c.pc = "done" /\ c.ret.err \notin {"", "copyv"}) =>
                   /\ c.bios[c.i].user_io
                   /\ IsPrefix(UserPositions(c.bios, c.i - 1), c.reads)
                   /\ IsPrefix(c.reads, UserPositions(c.bios, c.i))
                   /\ Len(c.holder) = Len(UserPositions(c.bios, c.i - 1))
              /\ ~IsUntouched(c.out) => (c.pc = "done" /\ c.ret.err = "")
              /\ c.pc = "done" =>
                   ~ENABLED (ReadStart(t) \/ ReadFast(t) \/ ReadLoop(t) \/ ReadCopy(t))

\* A read on the general path read its first chunk and failed for the
\* backend at its second one.
C15_Witness ==
    \E t \in 1..MaxReaders :
        /\ calls[t].path = "general"
        /\ calls[t].pc = "done"
        /\ calls[t].ret.err = "backend"
        /\ calls[t].reads = <<1, 2>>
        /\ IsUntouched(calls[t].out)

=============================================================================
